---- MODULE Spec2Model ----
(***************************************************************************)
(* The six TOEIC practice scripts (part5, part6, part7, part1_5, part6_7,  *)
(* part8) as one state machine.  A run is one script: `script` is chosen   *)
(* in Init and never changes.  The process is launched (history loaded     *)
(* from the file), shows its menu, runs practice sessions made of remote   *)
(* calls and keyboard prompts, persists the session, and exits or dies     *)
(* with an unhandled exception; it can then be launched again on the file  *)
(* the earlier run left behind.                                            *)
(***************************************************************************)
EXTENDS Integers, Sequences, FiniteSets, TLC

VARIABLES
    script,          \* which of the six scripts this run is
    file,            \* the history file: Absent or its text
    pc,              \* where the process is: off / menu / generate / ...
    exc,             \* the unhandled exception that ended the process
    client,          \* self.client is set
    history,         \* self.history
    session,         \* the session record of the running practice session
    num,             \* num_questions / num_passages / num_exercises
    i,               \* the loop index of the item loop
    passage_type,    \* part7: the passage_type argument of the session
    item,            \* the generated question / passage / scene / prompt
    passage_result,  \* part6, part7: the result record of the passage
    qi,              \* part6, part7: position in passage['questions']
    user_answer,     \* part6, part7: the local user_answer, or "unbound"
    word_pair,       \* part1_5: the generated word pair
    user_response,   \* part6_7, part8: the lines typed so far
    total_score,     \* part1_5: the local total_score
    completed_exercises, \* part1_5: the local completed_exercises
    calls,           \* remote calls made since the session started
    reprompts,       \* unaccepted inputs seen at the current prompt
    skipped,         \* iterations of this session left with `continue`
    budget,          \* items the sessions to come may still request
    step,            \* SpecParse: the generation / evaluation step applied
    reply,           \* SpecParse: what the remote call of the step does
    returned,        \* SpecParse: what the step returned
    peer,            \* SpecRace: a second process of the same script
    stop,            \* SpecStop: the process is stopped inside its save
    lap,             \* part6_7: parity of the iterations left with `continue`
    args,            \* SpecPrompt: the arguments of the generation calls
    sent             \* SpecPrompt: the prompts sent to the remote model

vars == <<script, file, pc, exc, client, history, session, num, i,
          passage_type, item, passage_result, qi, user_answer, word_pair,
          user_response, total_score, completed_exercises, calls,
          reprompts, skipped, budget, step, reply, returned, peer, stop,
          lap, args, sent>>

\* the variables of SpecParse and SpecPrompt, the second process and the
\* moment the process is stopped, which the steps of the process leave alone
parse == <<step, reply, returned, peer, stop, args, sent>>

(***************************************************************************)
(* Bounds of the model.                                                    *)
(***************************************************************************)
MaxItems == 3
MaxReprompts == 2
MaxLines == 2
MaxCalls == 6

Scripts == {"part5", "part6", "part7", "part1_5", "part6_7", "part8"}
Reading == {"part5", "part6", "part7"}
Passages == {"part6", "part7"}

(***************************************************************************)
(* Python values.  What json.loads can return is modelled by its shape:    *)
(* None (JSON null), an empty value ({} [] 0 "" false: falsy), a truthy    *)
(* value that is no mapping (a number, a string, a list), or a mapping.    *)
(* A mapping records which expected field it lacks, if any.                *)
(***************************************************************************)
None == [t |-> "None"]
EmptyValue == [t |-> "empty"]
NonMapping == [t |-> "nonmapping"]

\* `not x` of Python is ~Truthy(x)
Truthy(v) == v.t \notin {"None", "empty"}

\* a sequence of n copies of x
Rep(n, x) == [j \in 1..n |-> x]

(***************************************************************************)
(* Text and JSON.  A text either is a JSON document (and then json.loads   *)
(* gives its value) or is not (json.loads raises JSONDecodeError).         *)
(* json.dump writes the document as JSON text.                             *)
(***************************************************************************)
NotJsonTexts == {[json |-> FALSE, raw |-> "{bad"]}
JsonText(v) == [json |-> TRUE, val |-> v]

json_loads(text) ==
    IF text.json THEN [ok |-> TRUE, val |-> text.val]
    ELSE [ok |-> FALSE, error |-> "JSONDecodeError"]

json_dump(doc) == JsonText(doc)

(***************************************************************************)
(* The history store.                                                      *)
(***************************************************************************)
\* a file is absent, or holds a text, or holds bytes that are no text in
\* the encoding open(..., 'r') reads with
Absent == [exists |-> FALSE]
FileOf(text) == [exists |-> TRUE, decodable |-> TRUE, text |-> text]
NotTextFile == [exists |-> TRUE, decodable |-> FALSE]

\* the key of the session list, and of the counter of items
ListKey(s) == IF s = "part6" THEN "passages" ELSE "sessions"
CounterKey(s) ==
    CASE s \in Reading -> "total_questions"
      [] s = "part1_5" -> "total_exercises"
      [] s = "part6_7" -> "total_responses"
      [] s = "part8" -> "total_essays"

DefaultDocument(s) ==
    CASE s \in {"part5", "part7"} ->
            [sessions |-> <<>>, total_correct |-> 0, total_questions |-> 0]
      [] s = "part6" ->
            [passages |-> <<>>, total_correct |-> 0, total_questions |-> 0]
      [] s = "part1_5" -> [sessions |-> <<>>, total_exercises |-> 0]
      [] s = "part6_7" -> [sessions |-> <<>>, total_responses |-> 0]
      [] s = "part8" -> [sessions |-> <<>>, total_essays |-> 0]

\* JSON documents that are no history document of script s: {}, [], and
\* the default document without its counter of items
EmptyObject == [t |-> "object"]
EmptyList == [t |-> "list"]
WithoutCounter(s) ==
    [k \in DOMAIN DefaultDocument(s) \ {CounterKey(s)} |->
        DefaultDocument(s)[k]]
OtherDocuments(s) == {EmptyObject, EmptyList, WithoutCounter(s)}

\* what self.history[k] raises: a list takes no string index, a mapping
\* raises KeyError on a key it does not hold
Subscript(h, k) ==
    IF h = EmptyList THEN "TypeError"
    ELSE IF k \in DOMAIN h THEN "none"
    ELSE "KeyError"

\* "Update history" reads the session list and then each counter
UpdateError(s, h) ==
    IF Subscript(h, ListKey(s)) # "none" THEN Subscript(h, ListKey(s))
    ELSE IF DOMAIN DefaultDocument(s) \subseteq DOMAIN h THEN "none"
    ELSE "KeyError"

\* a statistics view reads the session list, returns when it is empty, and
\* reads the counters otherwise
StatsError(s, h) ==
    IF Subscript(h, ListKey(s)) # "none" THEN Subscript(h, ListKey(s))
    ELSE IF h[ListKey(s)] = <<>> THEN "none"
    ELSE UpdateError(s, h)

\* what a call returns, or the exception it raises
Value(v) == [raised |-> FALSE, val |-> v]
Raised(e) == [raised |-> TRUE, error |-> e]

\* json.load(f) reads the file as text, which raises UnicodeDecodeError on
\* bytes that are no text; only json.JSONDecodeError is caught
load_history(s, f) ==
    IF f.exists
    THEN IF ~f.decodable THEN Raised("UnicodeDecodeError")
         ELSE LET parsed == json_loads(f.text)
              IN  IF parsed.ok THEN Value(parsed.val)
                  ELSE Value(DefaultDocument(s))
    ELSE Value(DefaultDocument(s))

save_history(h) == FileOf(json_dump(h))

\* what the file can hold when the process stops inside save_history:
\* what it held (open not reached), nothing (open(..., 'w') has emptied
\* it), a part of the text json.dump writes, or the whole text
StoppedSaves(f, h) ==
    {f, FileOf([json |-> FALSE, raw |-> ""]),
     FileOf([json |-> FALSE, raw |-> "{"]), save_history(h)}

(***************************************************************************)
(* The remote call.  It raises, or it returns a reply whose content is a   *)
(* text.  The valid replies of each script are the shapes the session      *)
(* loop tells apart.                                                       *)
(***************************************************************************)
KeyLetters == {"A", "B"}
PassageTypes == {"Single passage", "Double passage"}

\* part5: a question mapping; correct_answer is the key letter
Question(k, l) == [t |-> "dict", lacks |-> l, correct_answer |-> k]

\* part6: a passage mapping; questions is the sequence of the key letters
\* of its question mappings
Passage6(ks, l) == [t |-> "dict", lacks |-> l, questions |-> ks]

\* part7: passage_text is a string (parts 0) or a list of `parts` strings
Passage7(ks, l, ptype, parts) ==
    [t |-> "dict", lacks |-> l, questions |-> ks, passage_type |-> ptype,
     parts |-> parts]

QuestionLists == {<<>>, <<"B">>}

OtherValues == {None, EmptyValue, NonMapping}

ReplyValues(s) ==
    CASE s = "part5" ->
            OtherValues
            \cup {Question(k, "none") : k \in KeyLetters}
            \cup {Question("A", "topic"), Question("A", "correct_answer")}
      [] s = "part6" ->
            OtherValues
            \cup {Passage6(ks, "none") : ks \in QuestionLists}
            \cup {Passage6(<<"A">>, "passage_title"),
                  Passage6(<<"A">>, "correct_answer"),
                  Passage6(<<>>, "questions")}
      [] s = "part7" ->
            OtherValues
            \cup {Passage7(ks, "none", "Single passage", 0) : ks \in QuestionLists}
            \cup {Passage7(<<"B">>, "none", "Double passage", 2),
                  Passage7(<<"A">>, "passage_title", "Single passage", 0),
                  Passage7(<<"A">>, "correct_answer", "Single passage", 0),
                  Passage7(<<>>, "questions", "Single passage", 0)}

\* a mapping of the writing scripts (scene, word pair, email scenario,
\* essay prompt)
Mapping(l) == [t |-> "dict", lacks |-> l]

\* an evaluation mapping with its grammar_score and its overall_score
Evaluation(g, o, l) ==
    [t |-> "dict", lacks |-> l, grammar_score |-> g, overall_score |-> o]

EvaluationScores == {5}

\* the field a malformed mapping lacks
LackedField(s) ==
    CASE s = "part1_5" -> "scene_title"
      [] s = "part6_7" -> "email_subject"
      [] s = "part8" -> "topic"

ItemValues(s) ==
    IF s \in Reading THEN ReplyValues(s)
    ELSE OtherValues \cup {Mapping("none"), Mapping(LackedField(s))}

WordPairValues == OtherValues \cup {Mapping("none"), Mapping("word1")}

EvaluationValues ==
    OtherValues
    \cup {Evaluation(4, sc, "none") : sc \in EvaluationScores}
    \cup {Evaluation(5, 5, "grammar_score")}

Raises == [raises |-> TRUE]
Returns(text) == [raises |-> FALSE, content |-> text]

RepliesOf(values) ==
    {Raises}
    \cup {Returns(text) : text \in NotJsonTexts}
    \cup {Returns(JsonText(v)) : v \in values}

Replies(s) == RepliesOf(ItemValues(s))
WordPairReplies == RepliesOf(WordPairValues)
EvaluationReplies == RepliesOf(EvaluationValues)

(***************************************************************************)
(* The generation steps of the reading scripts.                            *)
(***************************************************************************)
PlaceholderKey == "A"
Part6PlaceholderQuestions == 3
QuestionsPerPassage == 3
DoubleQuestions == 5
SingleQuestionsMin == 2
SingleQuestionsMax == 4

\* part7 generate_passage: num_questions, rnd being random.randint(2, 4)
NumQuestions(ptype, rnd) ==
    IF ptype = "Double passage" THEN DoubleQuestions ELSE rnd

\* Generated without its `except json.JSONDecodeError` branch: the decode
\* failure reaches `except Exception`
GeneratedNoneOnDecodeError(r, fallback_result) ==
    IF r.raises THEN None
    ELSE LET parsed == json_loads(r.content)
         IN  IF parsed.ok THEN parsed.val ELSE None

\* Generated with the placeholder served when the remote call raises
GeneratedPlaceholderOnRaise(r, fallback_result) ==
    IF r.raises THEN fallback_result
    ELSE LET parsed == json_loads(r.content)
         IN  IF parsed.ok THEN parsed.val ELSE fallback_result

\* try: create(...); try: json.loads(content) except JSONDecodeError:
\* fallback_result; except Exception: None
Generated(r, fallback_result) ==
    IF r.raises THEN None
    ELSE LET parsed == json_loads(r.content)
         IN  IF parsed.ok THEN parsed.val ELSE fallback_result

generate_question(r) ==
    Generated(r, Question(PlaceholderKey, "none"))

generate_passage6(r) ==
    Generated(r,
              Passage6(Rep(Part6PlaceholderQuestions, PlaceholderKey), "none"))

\* part1_5 generate_image_description, part6_7 generate_email_scenario,
\* part8 generate_essay_prompt
generate_item(r) == Generated(r, Mapping("none"))

generate_word_pair(r) == Generated(r, Mapping("none"))

FallbackScore == 3

\* part1_5 evaluate_sentence, part6_7 evaluate_response, part8 evaluate_essay
evaluate(r) ==
    Generated(r, Evaluation(FallbackScore, FallbackScore, "none"))

generate_passage7(r, ptype, rnd) ==
    Generated(r,
              Passage7(Rep(NumQuestions(ptype, rnd), PlaceholderKey), "none",
                       ptype, IF ptype = "Double passage" THEN 1 ELSE 0))

(***************************************************************************)
(* Keyboard input.                                                         *)
(***************************************************************************)
AnswerInputs == {"a", "q", "Q", "x"}
PauseInputs == {"", "q"}
AcceptedAnswers == {"A", "B", "C", "D", "Q"}

\* str.upper()
upper(c) ==
    CASE c = "a" -> "A"
      [] c = "b" -> "B"
      [] c = "q" -> "Q"
      [] c = "x" -> "X"
      [] OTHER -> c

(***************************************************************************)
(* Sessions of the reading scripts.                                        *)
(***************************************************************************)
RECURSIVE SumLen(_)
\* sum(len(p['questions']) for p in passages)
SumLen(ps) ==
    IF ps = <<>> THEN 0 ELSE Len(Head(ps).questions) + SumLen(Tail(ps))

\* Answered as the number of questions the session announced
AnsweredAsAnnounced(s, sess) == sess.total

\* what the script adds to total_questions for a session
Answered(s, sess) ==
    IF s = "part5" THEN Len(sess.questions) ELSE SumLen(sess.passages)

\* average_score is kept as the quotient the code computes, unreduced;
\* the 0 a new session starts with is 0 / 1
Quotient(a, b) == [sum |-> a, n |-> b]
Zero == Quotient(0, 1)

NewSession(s, n) ==
    CASE s = "part5" -> [questions |-> <<>>, correct |-> 0, total |-> n]
      [] s = "part6" ->
            [passages |-> <<>>, correct |-> 0,
             total |-> n * QuestionsPerPassage]
      [] s = "part7" -> [passages |-> <<>>, correct |-> 0, total |-> 0]
      [] s = "part1_5" -> [exercises |-> <<>>, average_score |-> Zero]
      [] s = "part6_7" -> [responses |-> <<>>, average_score |-> Zero]
      [] s = "part8" -> [essays |-> <<>>, average_score |-> Zero]

\* the key of the items of a session of the writing scripts
ItemsKey(s) ==
    CASE s = "part1_5" -> "exercises"
      [] s = "part6_7" -> "responses"
      [] s = "part8" -> "essays"

RECURSIVE SumScores(_)
\* sum(r["scores"]["overall_score"] for r in records)
SumScores(rs) ==
    IF rs = <<>> THEN 0 ELSE Head(rs).overall_score + SumScores(Tail(rs))

\* Entry marking every answer correct
EntryMarkedCorrect(ua, key) ==
    [user_answer |-> ua, correct_answer |-> key, is_correct |-> TRUE]

\* one recorded answer
Entry(ua, key) ==
    [user_answer |-> ua, correct_answer |-> key, is_correct |-> (ua = key)]

\* Scored without the count
ScoredUncounted(sess, ua, key) == sess

\* session['correct'] += 1 when the answer is correct
Scored(sess, ua, key) ==
    IF ua = key THEN [sess EXCEPT !.correct = @ + 1] ELSE sess

\* "Calculate average score" of the writing scripts: ts and ce are the
\* locals total_score and completed_exercises of part1_5
Averaged(s, sess, ts, ce) ==
    CASE s = "part1_5" ->
            IF ce > 0 THEN [sess EXCEPT !.average_score = Quotient(ts, ce)]
            ELSE sess
      [] s \in {"part6_7", "part8"} ->
            IF sess[ItemsKey(s)] # <<>>
            THEN [sess EXCEPT !.average_score =
                     Quotient(SumScores(sess[ItemsKey(s)]),
                              Len(sess[ItemsKey(s)]))]
            ELSE sess
      [] OTHER -> sess

\* Persisted with the counter of a writing script raised by one per session
PersistedPerSession(s, h, sess, ts, ce) ==
    CASE s \in Reading ->
            [h EXCEPT ![ListKey(s)] = Append(@, sess),
                      !["total_correct"] = @ + sess.correct,
                      !["total_questions"] = @ + Answered(s, sess)]
      [] OTHER ->
            [h EXCEPT !["sessions"] = Append(@, Averaged(s, sess, ts, ce)),
                      ![CounterKey(s)] = @ + 1]

\* "Update history"
Persisted(s, h, sess, ts, ce) ==
    CASE s \in Reading ->
            [h EXCEPT ![ListKey(s)] = Append(@, sess),
                      !["total_correct"] = @ + sess.correct,
                      !["total_questions"] = @ + Answered(s, sess)]
      [] s = "part1_5" ->
            [h EXCEPT !["sessions"] = Append(@, Averaged(s, sess, ts, ce)),
                      !["total_exercises"] = @ + ce]
      [] s \in {"part6_7", "part8"} ->
            [h EXCEPT !["sessions"] = Append(@, Averaged(s, sess, ts, ce)),
                      ![CounterKey(s)] = @ + Len(sess[ItemsKey(s)])]

NoSession == [t |-> "None"]

(***************************************************************************)
(* Steps shared by the session loops.                                      *)
(***************************************************************************)
InSession(p) ==
    p \in {"generate", "answer", "pause", "sentence", "collect", "continue"}

\* the locals of practice_session are gone once it returns or dies
Idle ==
    /\ session' = NoSession
    /\ num' = 0
    /\ i' = 0
    /\ passage_type' = "None"
    /\ item' = None
    /\ passage_result' = None
    /\ qi' = 0
    /\ user_answer' = "unbound"
    /\ word_pair' = None
    /\ user_response' = <<>>
    /\ total_score' = 0
    /\ completed_exercises' = 0
    /\ calls' = 0
    /\ reprompts' = 0
    /\ skipped' = 0
    /\ lap' = 0

\* Held re-reading the file before the session is appended
HeldRereadsFile(h, f) ==
    LET loaded == load_history(script, f)
    IN  IF loaded.raised THEN h ELSE loaded.val

\* the document a session is appended to: self.history as the process
\* holds it in memory since its launch, never the file
Held(h, f) == h

\* an exception nobody catches ends the process
Crash(e) ==
    /\ pc' = "off"
    /\ exc' = e
    /\ client' = FALSE
    /\ history' = None
    /\ UNCHANGED <<script, file, budget, parse>>
    /\ Idle

\* the end of practice_session: append, add to the counters, save, return
\* to the menu
EndSessionWith(sess, ts, ce) ==
    IF UpdateError(script, history) # "none"
    THEN Crash(UpdateError(script, history))
    ELSE IF stop
    THEN /\ file' \in StoppedSaves(file, Persisted(script, Held(history, file),
                                                  sess, ts, ce))
         /\ pc' = "off"
         /\ client' = FALSE
         /\ history' = None
         /\ UNCHANGED <<script, exc, budget, parse>>
         /\ Idle
    ELSE /\ history' = Persisted(script, Held(history, file), sess, ts, ce)
         /\ file' = save_history(history')
         /\ pc' = "menu"
         /\ UNCHANGED <<script, exc, client, budget, parse>>
         /\ Idle

EndSession(sess) == EndSessionWith(sess, total_score, completed_exercises)

\* ReturnToMenu through the "Update history" part
ReturnToMenuSaving == EndSession(session)

\* `return` out of the session without the "Update history" part
ReturnToMenu ==
    /\ pc' = "menu"
    /\ UNCHANGED <<script, file, exc, client, history, budget, parse>>
    /\ Idle

\* a step that stays inside practice_session
Step(p, sess, idx, it, pr, q, ua, c, rp, sk) ==
    /\ pc' = p
    /\ session' = sess
    /\ i' = idx
    /\ item' = it
    /\ passage_result' = pr
    /\ qi' = q
    /\ user_answer' = ua
    /\ calls' = c
    /\ reprompts' = rp
    /\ skipped' = sk
    /\ UNCHANGED <<script, file, exc, client, history, num, passage_type,
                   word_pair, user_response, total_score,
                   completed_exercises, budget, lap, parse>>

\* SkipItem repeating the iteration that gave nothing
SkipItemRetries(c) ==
    Step("generate", session, i, None, None, 0, user_answer, c, 0,
         skipped + 1)

\* `continue` after a generation step that gave nothing
SkipItem(c) ==
    IF i + 1 < num
    THEN Step("generate", session, i + 1, None, None, 0, user_answer, c, 0,
              skipped + 1)
    ELSE EndSession(session)

\* after the body of an iteration: "Press Enter for the next ..." unless
\* this was the last iteration
AfterItem(sess, ua, c) ==
    IF i < num - 1
    THEN Step("pause", sess, i, None, None, 0, ua, c, 0, skipped)
    ELSE EndSession(sess)

(***************************************************************************)
(* Initial state and the menu.                                             *)
(***************************************************************************)
InitialFiles ==
    {Absent, NotTextFile} \cup {FileOf(text) : text \in NotJsonTexts}

NoStep == [fn |-> "none"]
NoReply == [t |-> "none"]
NotCalled == [t |-> "not called"]

\* the state of a process that has not run yet
Unlaunched ==
    /\ pc = "off"
    /\ exc = "none"
    /\ client = FALSE
    /\ history = None
    /\ session = NoSession
    /\ num = 0
    /\ i = 0
    /\ passage_type = "None"
    /\ item = None
    /\ passage_result = None
    /\ qi = 0
    /\ user_answer = "unbound"
    /\ word_pair = None
    /\ user_response = <<>>
    /\ total_score = 0
    /\ completed_exercises = 0
    /\ calls = 0
    /\ reprompts = 0
    /\ skipped = 0
    /\ budget = MaxItems
    /\ lap = 0

\* the process before its launch
Fresh ==
    /\ script \in Scripts
    /\ file \in InitialFiles
    /\ Unlaunched

NoArgs == [topic |-> "None", subtype |-> "None"]

\* no second process
NoPeer == [pc |-> "off", exc |-> "none", client |-> FALSE, history |-> None]

Alone ==
    /\ step = NoStep
    /\ reply = NoReply
    /\ returned = NotCalled
    /\ peer = NoPeer
    /\ args = NoArgs
    /\ sent = <<>>

Init ==
    /\ Fresh
    /\ Alone
    /\ stop = FALSE

\* the scripts whose main sets the API client up before the menu
SetupInMain == {"part6_7", "part8"}

\* main up to the first menu: the constructor loads the history
Launch ==
    /\ pc = "off"
    /\ LET loaded == load_history(script, file)
       IN  IF loaded.raised THEN Crash(loaded.error)
           ELSE /\ \E ok \in BOOLEAN :
                      IF script \in SetupInMain
                      THEN /\ client' = ok
                           /\ pc' = IF ok THEN "menu" ELSE "off"
                           /\ history' = IF ok THEN loaded.val ELSE None
                      ELSE /\ client' = FALSE
                           /\ pc' = "menu"
                           /\ history' = loaded.val
                /\ exc' = "none"
                /\ UNCHANGED <<script, file, budget, parse>>
                /\ Idle

RECURSIVE Reverse(_)
Reverse(sq) ==
    IF sq = <<>> THEN <<>> ELSE Append(Reverse(Tail(sq)), Head(sq))

RecentCount == 5

\* show_stats / display_statistics: part7 and part1_5 reverse, in place,
\* the list they show, which is self.history['sessions'] itself unless it
\* holds more than RecentCount sessions
show_stats(s, h) ==
    IF /\ s \in {"part7", "part1_5"}
       /\ h.sessions # <<>>
       /\ Len(h.sessions) <= RecentCount
    THEN [h EXCEPT !.sessions = Reverse(@)]
    ELSE h

\* sq[-n:]
LastOf(sq, n) ==
    IF Len(sq) > n THEN SubSeq(sq, Len(sq) - n + 1, Len(sq)) ELSE sq

\* the sessions a statistics view prints under "Recent ... Sessions", in the
\* order of its print loop
recent_sessions(s, h) == Reverse(LastOf(h.sessions, RecentCount))

MenuStats ==
    /\ pc = "menu"
    /\ IF StatsError(script, history) # "none"
       THEN Crash(StatsError(script, history))
       ELSE /\ history' = show_stats(script, history)
            /\ UNCHANGED <<script, file, pc, exc, client, session, num, i,
                           passage_type, item, passage_result, qi,
                           user_answer, word_pair, user_response,
                           total_score, completed_exercises, calls,
                           reprompts, skipped, budget, lap, parse>>

MenuExit ==
    /\ pc = "menu"
    /\ pc' = "off"
    /\ client' = FALSE
    /\ history' = None
    /\ UNCHANGED <<script, file, exc, budget, parse>>
    /\ Idle

(***************************************************************************)
(* practice_session of part5, part6 and part7.                             *)
(***************************************************************************)
SessionTypes(s) ==
    IF s = "part7" THEN {"None"} \cup PassageTypes ELSE {"None"}

\* menu choice 1 with an accepted count (and passage type): the session
\* starts unless no client can be set up
StartSession ==
    /\ pc = "menu"
    /\ \E n \in 1..budget, pt \in SessionTypes(script), ok \in BOOLEAN :
          /\ script \in SetupInMain => n = 1
          /\ IF client \/ ok
             THEN /\ client' = TRUE
                  /\ pc' = "generate"
                  /\ session' = NewSession(script, n)
                  /\ num' = IF script \in SetupInMain THEN 0 ELSE n
                  /\ passage_type' = pt
                  /\ budget' = budget - n
                  /\ UNCHANGED <<script, file, exc, history, i, item,
                                 passage_result, qi, user_answer, word_pair,
                                 user_response, total_score,
                                 completed_exercises, calls, reprompts,
                                 skipped, lap, parse>>
             ELSE UNCHANGED vars

\* the record that collects the answers of one passage
NewPassageResult(s, passage) ==
    IF s = "part7"
    THEN [passage_type |-> passage.passage_type, questions |-> <<>>]
    ELSE [questions |-> <<>>]

\* the exception, if any, between the generation step and the first
\* answer prompt: the passage_result literal, part7's session['total']
\* update, display_passage, the head of the question loop
BeforePrompt(s, q) ==
    CASE q.t # "dict" -> "TypeError"
      [] q.t = "dict" /\ s = "part5" /\ q.lacks = "topic" -> "KeyError"
      [] q.t = "dict" /\ s \in Passages
            /\ q.lacks \in {"passage_title", "questions"} -> "KeyError"
      [] q.t = "dict" /\ s = "part7" /\ q.lacks = "none"
            /\ q.passage_type = "Double passage" /\ q.parts = 1 -> "IndexError"
      [] OTHER -> "none"

\* after the question loop of a passage: `if user_answer == 'Q': break`,
\* then the passage is added to the session
AfterQuestions(sess, pr, ua, c) ==
    IF ua = "unbound" THEN Crash("UnboundLocalError")
    ELSE IF ua = "Q" THEN EndSession(sess)
    ELSE AfterItem([sess EXCEPT !.passages = Append(@, pr)], ua, c)

\* the passage types and random question counts a generation call of the
\* script can be made with: part7 picks the type at random unless the
\* session was given one, and random.randint(2, 4) questions, of which
\* the least and the greatest are drawn
CurrentTypes ==
    IF script # "part7" THEN {"None"}
    ELSE IF passage_type # "None" THEN {passage_type}
    ELSE PassageTypes

RandomCounts ==
    IF script # "part7" THEN {0}
    ELSE {SingleQuestionsMin, SingleQuestionsMax}

\* one iteration up to its first prompt: the generation call and the
\* display of what it returned
GenerateItem(r, cpt, rnd) ==
    /\ pc = "generate"
    /\ script \in Reading
    /\ LET q == CASE script = "part5" -> generate_question(r)
                   [] script = "part6" -> generate_passage6(r)
                   [] script = "part7" -> generate_passage7(r, cpt, rnd)
           e == BeforePrompt(script, q)
           sess == IF script = "part7" /\ e = "none"
                   THEN [session EXCEPT !.total = @ + Len(q.questions)]
                   ELSE session
       IN  IF ~Truthy(q) THEN SkipItem(calls + 1)
           ELSE IF e # "none" THEN Crash(e)
           ELSE IF script = "part5"
           THEN Step("answer", sess, i, q, None, 0, user_answer,
                     calls + 1, 0, skipped)
           ELSE IF q.questions = <<>>
           THEN AfterQuestions(sess, NewPassageResult(script, q),
                               user_answer, calls + 1)
           ELSE Step("answer", sess, i, q, NewPassageResult(script, q),
                     1, user_answer, calls + 1, 0, skipped)

\* Accepted without the membership test
AcceptedAnything(ua) == TRUE

\* `user_answer in ['A', 'B', 'C', 'D', 'Q']`
Accepted(ua) == ua \in AcceptedAnswers

\* IsQuit without the test: the quit token is scored as an answer
IsQuitNever(ua) == FALSE

\* `user_answer == 'Q'`
IsQuit(ua) == ua = "Q"

\* one line typed at "Your answer (A/B/C/D or 'q' to quit): "
Answer(inp) ==
    /\ pc = "answer"
    /\ LET ua == upper(inp)
           key == IF script = "part5" THEN item.correct_answer
                  ELSE item.questions[qi]
           ua_kept == IF script = "part5" THEN user_answer ELSE ua
       IN  IF ~Accepted(ua)
           THEN /\ reprompts < MaxReprompts
                /\ Step("answer", session, i, item, passage_result, qi,
                        ua_kept, calls, reprompts + 1, skipped)
           ELSE IF IsQuit(ua) THEN EndSession(session)
           ELSE IF item.lacks = "correct_answer" THEN Crash("KeyError")
           ELSE IF script = "part5"
           THEN AfterItem([Scored(session, ua, key) EXCEPT
                              !.questions = Append(@, Entry(ua, key))],
                          ua_kept, calls)
           ELSE LET pr == [passage_result EXCEPT
                              !.questions = Append(@, Entry(ua, key))]
                IN  IF qi < Len(item.questions)
                    THEN Step("answer", Scored(session, ua, key), i, item,
                              pr, qi + 1, ua, calls, 0, skipped)
                    ELSE AfterQuestions(Scored(session, ua, key), pr, ua,
                                        calls)

\* Pause taking the quit token for the end of the session
PauseEndsOnQuit(inp) ==
    /\ pc = "pause"
    /\ IF upper(inp) = "Q" THEN EndSession(session)
       ELSE Step("generate", session, i + 1, None, None, 0, user_answer,
                 calls, 0, skipped)

\* one line typed at "Press Enter for the next ..."
Pause(inp) ==
    /\ pc = "pause"
    /\ Step("generate", session, i + 1, None, None, 0, user_answer, calls,
            0, skipped)

(***************************************************************************)
(* The sessions of the writing scripts.                                    *)
(***************************************************************************)
SentenceInputs == {"q", "Q", " ", "text"}
Lines == {"", "t"}
ContinueInputs == {"y", "Y", "n"}

\* str.lower()
lower(c) ==
    CASE c = "Q" -> "q"
      [] c = "Y" -> "y"
      [] OTHER -> c

\* str.strip()
strip(c) == IF c = " " THEN "" ELSE c

\* the count of remote calls, which stops counting at MaxCalls
Called(c, k) == IF c + k > MaxCalls THEN MaxCalls ELSE c + k

\* a step that stays inside the session of a writing script
WStepTo(p, sess, idx, it, wp, ur, ts, ce, c, sk, lp) ==
    /\ pc' = p
    /\ lap' = lp
    /\ session' = sess
    /\ i' = idx
    /\ item' = it
    /\ word_pair' = wp
    /\ user_response' = ur
    /\ total_score' = ts
    /\ completed_exercises' = ce
    /\ calls' = c
    /\ skipped' = sk
    /\ UNCHANGED <<script, file, exc, client, history, num, passage_type,
                   passage_result, qi, user_answer, reprompts, budget,
                   parse>>

WStep(p, sess, idx, it, wp, ur, ts, ce, c, sk) ==
    WStepTo(p, sess, idx, it, wp, ur, ts, ce, c, sk, lap)

\* part6_7: `continue` with continue_session still True: the body of
\* `while continue_session` runs again from its generation call
NextLap(c, sk) ==
    WStepTo("generate", session, i, None, None, <<>>, total_score,
            completed_exercises, c, sk, 1 - lap)

\* the exception, if any, of reading the expected fields of a truthy value
FieldError(v) ==
    CASE v.t # "dict" -> "TypeError"
      [] v.t = "dict" /\ v.lacks # "none" -> "KeyError"
      [] OTHER -> "none"

\* part1_5: `continue`
SkipExercise(c) ==
    IF i + 1 < num
    THEN WStep("generate", session, i + 1, None, None, <<>>, total_score,
               completed_exercises, c, skipped + 1)
    ELSE EndSession(session)

\* part1_5, one iteration up to "Your sentence: ": the scene, its image,
\* the word pair, and their display
GenerateExercise(r1, image_path, r2) ==
    /\ pc = "generate"
    /\ script = "part1_5"
    /\ LET scene == generate_item(r1)
           wp == generate_word_pair(r2)
       IN  IF ~Truthy(scene) THEN SkipExercise(calls + 1)
           ELSE IF FieldError(scene) # "none" THEN Crash(FieldError(scene))
           ELSE IF ~Truthy(wp) THEN SkipExercise(calls + 3)
           ELSE IF FieldError(wp) # "none" THEN Crash(FieldError(wp))
           ELSE WStep("sentence", session, i,
                      [t |-> "dict", lacks |-> "none",
                       image_path |-> image_path],
                      wp, <<>>, total_score, completed_exercises,
                      calls + 3, skipped)

\* part1_5, the line typed at "Your sentence: " and its evaluation
Sentence(user_sentence, r) ==
    /\ pc = "sentence"
    /\ LET evaluation == evaluate(r)
           sess == [session EXCEPT !.exercises =
                       Append(@, [overall_score |-> evaluation.overall_score,
                                  image_path |-> item.image_path])]
       IN  IF lower(user_sentence) = "q" THEN EndSession(session)
           ELSE IF strip(user_sentence) = "" THEN SkipExercise(calls)
           ELSE IF ~Truthy(evaluation) THEN SkipExercise(calls + 1)
           ELSE IF FieldError(evaluation) # "none"
           THEN Crash(FieldError(evaluation))
           ELSE IF i < num - 1
           THEN WStep("pause", sess, i, None, None, <<>>,
                      total_score + evaluation.overall_score,
                      completed_exercises + 1, calls + 1, skipped)
           ELSE EndSessionWith(sess,
                               total_score + evaluation.overall_score,
                               completed_exercises + 1)

\* part6_7, part8: the email scenario / essay prompt and its display
GeneratePrompt(r) ==
    /\ pc = "generate"
    /\ script \in SetupInMain
    /\ LET prompt == generate_item(r)
       IN  IF ~Truthy(prompt)
           THEN IF script = "part8" THEN ReturnToMenu
                ELSE NextLap(Called(calls, 1), Called(skipped, 1))
           ELSE IF FieldError(prompt) # "none" THEN Crash(FieldError(prompt))
           ELSE WStep("collect", session, i, prompt, None, <<>>,
                      total_score, completed_exercises, Called(calls, 1),
                      skipped)

\* part6_7, part8: one typed line of the response / essay; the line that
\* ends the collection is followed by the evaluation, its display and
\* the record of the response
TypeLine(line, time_up, r) ==
    /\ pc = "collect"
    /\ LET ended == line = "" /\ user_response # <<>>
           text == IF ended THEN user_response
                   ELSE Append(user_response, line)
           evaluation == evaluate(r)
           sess == [session EXCEPT ![ItemsKey(script)] =
                       Append(@, [overall_score |-> evaluation.overall_score])]
       IN  IF ~ended /\ ~time_up
           THEN /\ Len(text) <= MaxLines
                /\ WStep("collect", session, i, item, None, text,
                          total_score, completed_exercises, calls, skipped)
           ELSE IF ~Truthy(evaluation)
           THEN IF script = "part8" THEN ReturnToMenu
                ELSE NextLap(Called(calls, 1), Called(skipped, 1))
           ELSE IF FieldError(evaluation) # "none"
           THEN Crash(FieldError(evaluation))
           ELSE IF script = "part8" THEN EndSession(sess)
           ELSE WStep("continue", sess, i, None, None, <<>>, total_score,
                      completed_exercises, Called(calls, 1), skipped)

\* part6_7: "Would you like to respond to another email? (y/n): "
Continue(continue_choice) ==
    /\ pc = "continue"
    /\ IF lower(continue_choice) = "y"
       THEN /\ budget > 0
            /\ budget' = budget - 1
            /\ pc' = "generate"
            /\ UNCHANGED <<script, file, exc, client, history, session,
                           num, i, passage_type, item, passage_result, qi,
                           user_answer, word_pair, user_response,
                           total_score, completed_exercises, calls,
                           reprompts, skipped, lap, parse>>
       ELSE EndSession(session)

Next ==
    \/ Launch
    \/ StartSession
    \/ MenuStats
    \/ MenuExit
    \/ \E r \in Replies(script), cpt \in CurrentTypes, rnd \in RandomCounts :
          GenerateItem(r, cpt, rnd)
    \/ \E inp \in AnswerInputs : Answer(inp)
    \/ \E inp \in PauseInputs : Pause(inp)
    \/ \E r1 \in Replies(script), image_path \in BOOLEAN,
          r2 \in WordPairReplies : GenerateExercise(r1, image_path, r2)
    \/ \E user_sentence \in SentenceInputs, r \in EvaluationReplies :
          Sentence(user_sentence, r)
    \/ \E r \in Replies(script) : GeneratePrompt(r)
    \/ \E line \in Lines, time_up \in BOOLEAN, r \in EvaluationReplies :
          TypeLine(line, time_up, r)
    \/ \E continue_choice \in ContinueInputs : Continue(continue_choice)


Spec == Init /\ [][Next]_vars

(***************************************************************************)
(* Two processes of one script on one history file.  The process of the    *)
(* variables above runs; the other one is parked in `peer` with what it    *)
(* holds between two handlers of its menu: its position, its client and    *)
(* its in-memory history.  Switch parks the running process and resumes    *)
(* the other.  A session reads nothing from the file and writes it once,   *)
(* at its end, so switching at the menu yields every order of the loads    *)
(* and saves of the two.                                                   *)
(***************************************************************************)
RaceScripts == {"part5", "part6"}

Switch ==
    /\ pc \in {"off", "menu"}
    /\ peer' = [pc |-> pc, exc |-> exc, client |-> client,
                history |-> history]
    /\ pc' = peer.pc
    /\ exc' = peer.exc
    /\ client' = peer.client
    /\ history' = peer.history
    /\ UNCHANGED <<script, file, budget, step, reply, returned, stop, args,
                   sent>>
    /\ Idle

RaceInit == Init /\ script \in RaceScripts

\* the steps of a reading script
NextReading ==
    \/ Launch
    \/ StartSession
    \/ MenuStats
    \/ MenuExit
    \/ \E r \in Replies(script), cpt \in CurrentTypes, rnd \in RandomCounts :
          GenerateItem(r, cpt, rnd)
    \/ \E inp \in AnswerInputs : Answer(inp)
    \/ \E inp \in PauseInputs : Pause(inp)

NextRace == NextReading \/ Switch

SpecRace == RaceInit /\ [][NextRace]_vars

(***************************************************************************)
(* The running process goes on.  It takes its next step whenever it has    *)
(* one: a remote call returns or raises, and the user answers the prompt   *)
(* shown.  Which reply and which answer is left open; unaccepted answers,  *)
(* typed lines and further emails are bounded by MaxReprompts, MaxLines    *)
(* and the budget, so that the user ends up giving an accepted answer and  *)
(* declining to continue.                                                  *)
(***************************************************************************)
\* one script of each shape of session loop: a counted loop over
\* questions, a counted loop over exercises, `while continue_session`,
\* and a single essay
LiveScripts == {"part5", "part1_5", "part6_7", "part8"}

LiveInit == Init /\ script \in LiveScripts

SpecLive == LiveInit /\ [][Next]_vars /\ WF_vars(Next)

(***************************************************************************)
(* A process launched on a history file that holds any JSON document.      *)
(***************************************************************************)
LoadFiles(s) ==
    {Absent} \cup {FileOf(JsonText(doc)) : doc \in OtherDocuments(s)}

LoadInit ==
    /\ script \in Scripts
    /\ file \in LoadFiles(script)
    /\ Unlaunched
    /\ Alone
    /\ stop = FALSE

SpecLoad == LoadInit /\ [][Next]_vars

(***************************************************************************)
(* A process that may be stopped (killed, power lost) inside save_history. *)
(***************************************************************************)
StopInit ==
    /\ Fresh
    /\ Alone
    /\ script \in RaceScripts
    /\ stop \in BOOLEAN

SpecStop == StopInit /\ [][NextReading]_vars

(***************************************************************************)
(* The generation and evaluation steps as functions of the remote call's   *)
(* outcome: SpecParse draws a step and a reply, and applies the step.      *)
(***************************************************************************)
GenerationSteps(s) ==
    CASE s = "part5" -> {[fn |-> "generate_question"]}
      [] s = "part6" -> {[fn |-> "generate_passage"]}
      [] s = "part7" ->
            {[fn |-> "generate_passage", passage_type |-> "Single passage",
              rnd |-> n] : n \in SingleQuestionsMin..SingleQuestionsMax}
            \cup {[fn |-> "generate_passage",
                   passage_type |-> "Double passage", rnd |-> 0]}
      [] s = "part1_5" ->
            {[fn |-> "generate_image_description"],
             [fn |-> "generate_word_pair"], [fn |-> "evaluate_sentence"]}
      [] s = "part6_7" ->
            {[fn |-> "generate_email_scenario"], [fn |-> "evaluate_response"]}
      [] s = "part8" ->
            {[fn |-> "generate_essay_prompt"], [fn |-> "evaluate_essay"]}

EvaluationSteps ==
    {"evaluate_sentence", "evaluate_response", "evaluate_essay"}

StepReplies(s, st) ==
    CASE st.fn \in EvaluationSteps -> EvaluationReplies
      [] st.fn = "generate_word_pair" -> WordPairReplies
      [] OTHER -> Replies(s)

\* what the step returns when its remote call does r
Result(s, st, r) ==
    CASE st.fn = "generate_question" -> generate_question(r)
      [] st.fn = "generate_passage" /\ s = "part6" -> generate_passage6(r)
      [] st.fn = "generate_passage" /\ s = "part7" ->
            generate_passage7(r, st.passage_type, st.rnd)
      [] st.fn = "generate_word_pair" -> generate_word_pair(r)
      [] st.fn \in EvaluationSteps -> evaluate(r)
      [] OTHER -> generate_item(r)

ParseInit ==
    /\ Fresh
    /\ file = Absent
    /\ step \in GenerationSteps(script)
    /\ reply \in StepReplies(script, step)
    /\ returned = NotCalled
    /\ peer = NoPeer
    /\ stop = FALSE
    /\ args = NoArgs
    /\ sent = <<>>

CallStep ==
    /\ returned = NotCalled
    /\ returned' = Result(script, step, reply)
    /\ UNCHANGED <<script, file, pc, exc, client, history, session, num, i,
                   passage_type, item, passage_result, qi, user_answer,
                   word_pair, user_response, total_score,
                   completed_exercises, calls, reprompts, skipped, budget,
                   step, reply, peer, stop, lap, args, sent>>

SpecParse == ParseInit /\ [][CallStep]_vars

(***************************************************************************)
(* The dialogue of main between the menu and practice_session, prompt by   *)
(* prompt, for part5, part7 and part1_5: the menu choice, the item count,  *)
(* part7's passage type, and the topic (part1_5: the scene type).          *)
(***************************************************************************)
MenuScripts == {"part5", "part7", "part1_5"}

\* lines typed at a prompt
Entries == {"", "0", "1", "2", "3", "99", "x"}

\* str.isdigit(), and whether int() returns rather than raises ValueError
isdigit(e) == e \in {"0", "1", "2", "3", "99"}

int(e) ==
    CASE e = "0" -> 0
      [] e = "1" -> 1
      [] e = "2" -> 2
      [] e = "3" -> 3
      [] e = "99" -> 99

\* `input(...) or default`
or(e, default) == IF e = "" THEN default ELSE e

\* the greatest count the count prompt takes, and the default it takes for
\* an empty line (part5 has none: int('') raises ValueError)
CountLimit(s) ==
    CASE s = "part5" -> 20
      [] s = "part7" -> 5
      [] s = "part1_5" -> 10

CountDefault(s) ==
    CASE s = "part5" -> ""
      [] s = "part7" -> "2"
      [] s = "part1_5" -> "5"

\* len(practice.topics), len(practice.scenes)
TopicCount(s) == IF s = "part1_5" THEN 10 ELSE 8

\* practice.topics[k - 1]: an entry of the list, whichever
TopicAt(k) == "Travel"

\* a step of the dialogue that starts no session
Dialogue(p, n, pt, a) ==
    /\ pc' = p
    /\ num' = n
    /\ passage_type' = pt
    /\ args' = a
    /\ UNCHANGED <<script, file, exc, client, history, session, i, item,
                   passage_result, qi, user_answer, word_pair, user_response,
                   total_score, completed_exercises, calls, reprompts,
                   skipped, budget, step, reply, returned, peer, stop, lap,
                   sent>>

\* the call of practice_session with the values the dialogue collected
BeginSession(n, pt, a) ==
    \E ok \in BOOLEAN :
       IF client \/ ok
       THEN /\ client' = TRUE
            /\ pc' = "generate"
            /\ session' = NewSession(script, n)
            /\ num' = n
            /\ passage_type' = pt
            /\ args' = a
            /\ budget' = budget - n
            /\ UNCHANGED <<script, file, exc, history, i, item,
                           passage_result, qi, user_answer, word_pair,
                           user_response, total_score, completed_exercises,
                           calls, reprompts, skipped, step, reply, returned,
                           peer, stop, lap, sent>>
       ELSE Dialogue("menu", 0, "None", NoArgs)

\* "Enter your choice (1-3): "
Choose(choice) ==
    /\ pc = "menu"
    /\ CASE choice = "1" -> Dialogue("count", 0, "None", NoArgs)
         [] choice = "2" -> MenuStats
         [] choice = "3" -> MenuExit
         [] OTHER -> UNCHANGED vars

\* "How many ... would you like to practice?"; the model takes no count
\* above the budget
Count(e) ==
    /\ pc = "count"
    /\ LET text == IF script = "part5" THEN e ELSE or(e, CountDefault(script))
       IN  IF isdigit(text) /\ 1 <= int(text) /\ int(text) <= CountLimit(script)
           THEN /\ int(text) <= budget
                /\ Dialogue(IF script = "part7" THEN "type" ELSE "topic",
                            int(text), "None", NoArgs)
           ELSE UNCHANGED vars

\* part7, "Passage type: ... Enter your choice (1-3): "
Type(e) ==
    /\ pc = "type"
    /\ LET type_choice == or(e, "1")
       IN  Dialogue("topic", num,
                    CASE type_choice = "2" -> "Single passage"
                      [] type_choice = "3" -> "Double passage"
                      [] OTHER -> "None",
                    args)

\* "Choose a topic (1-9): " of part5; "Topic: ... Enter your choice (1-9): "
\* of part7 and "Scene type: ... Enter your choice (1-11): " of part1_5
Topic(e) ==
    /\ pc = "topic"
    /\ IF script = "part5"
       THEN IF isdigit(e) /\ 1 <= int(e) /\ int(e) <= TopicCount(script) + 1
            THEN BeginSession(num, "None",
                     [topic |-> IF int(e) = TopicCount(script) + 1
                                THEN "None" ELSE TopicAt(int(e)),
                      subtype |-> "None"])
            ELSE UNCHANGED vars
       ELSE LET topic_choice == or(e, "1")
                chosen == /\ topic_choice # "1"
                          /\ isdigit(topic_choice)
                          /\ 0 <= int(topic_choice) - 2
                          /\ int(topic_choice) - 2 < TopicCount(script)
            IN  BeginSession(num, passage_type,
                     [topic |-> IF chosen THEN TopicAt(int(topic_choice) - 1)
                                ELSE "None",
                      subtype |-> "None"])

MenuInit == Init /\ script \in MenuScripts

NextMenu ==
    \/ Launch
    \/ \E choice \in Entries : Choose(choice)
    \/ \E e \in Entries : Count(e)
    \/ \E e \in Entries : Type(e)
    \/ \E e \in Entries : Topic(e)
    \/ \E r \in Replies(script), cpt \in CurrentTypes, rnd \in RandomCounts :
          GenerateItem(r, cpt, rnd)
    \/ \E inp \in AnswerInputs : Answer(inp)
    \/ \E inp \in PauseInputs : Pause(inp)
    \/ \E r1 \in Replies(script), image_path \in BOOLEAN,
          r2 \in WordPairReplies : GenerateExercise(r1, image_path, r2)
    \/ \E user_sentence \in SentenceInputs, r \in EvaluationReplies :
          Sentence(user_sentence, r)

SpecMenu == MenuInit /\ [][NextMenu]_vars

(***************************************************************************)
(* The prompts of the generation calls.  A prompt is a fixed template with *)
(* holes; it is modelled by the values that fill its holes.  The holes are *)
(* filled from the arguments and from draws of the random module.          *)
(***************************************************************************)
PromptScripts == {"part5", "part6", "part7", "part6_7", "part8"}

\* the topic / context argument: None, or an entry of the script's list
Topics == {"None", "Travel", "Marketing"}

\* entries of self.passage_types of part6, self.essay_types of part8 and
\* self.task_types of part6_7
Part6Types == {"Business letter", "Memo"}
EssayTypes == {"Express a general opinion", "Explain the importance"}
TaskTypes == {"Ask questions", "Request information", "Make suggestions"}

\* the subtype argument a generation call of the script accepts
Subtypes(s) ==
    CASE s = "part7" -> {"None"} \cup PassageTypes
      [] s = "part8" -> {"None"} \cup EssayTypes
      [] OTHER -> {"None"}

\* random.randint(1, MaxCount(task_type)) of a task, of which the least
\* and the greatest are drawn
MaxCount(task_type) == IF task_type = "Ask questions" THEN 3 ELSE 2
NumTasksMax == 3

Tasks ==
    UNION {{[task_type |-> t, count |-> c] : c \in {1, MaxCount(t)}}
           : t \in TaskTypes}

\* random.sample(self.task_types, num_tasks) with the count of each
TaskLists ==
    UNION {{sq \in [1..n -> Tasks] :
              \A j, k \in 1..n : j # k => sq[j].task_type # sq[k].task_type}
           : n \in 1..NumTasksMax}

\* what the random module is asked for while a prompt is built
Draws(s) ==
    CASE s = "part5" -> [topic : Topics \ {"None"}]
      [] s = "part6" -> [topic : Topics \ {"None"}, passage_type : Part6Types]
      [] s = "part7" ->
            [topic : Topics \ {"None"}, passage_type : PassageTypes,
             randint : {SingleQuestionsMin, SingleQuestionsMax}]
      [] s = "part6_7" -> [topic : Topics \ {"None"}, tasks : TaskLists]
      [] s = "part8" -> [topic : Topics \ {"None"}, essay_type : EssayTypes]

\* the prompt of generate_question / generate_passage /
\* generate_email_scenario / generate_essay_prompt
Prompt(s, topic, subtype, d) ==
    LET t == IF topic = "None" THEN d.topic ELSE topic
    IN  CASE s = "part5" -> [topic |-> t]
          [] s = "part6" -> [topic |-> t, passage_type |-> d.passage_type]
          [] s = "part7" ->
                LET pt == IF subtype = "None" THEN d.passage_type
                          ELSE subtype
                IN  [topic |-> t, passage_type |-> pt,
                     num_questions |-> IF pt = "Double passage"
                                       THEN DoubleQuestions ELSE d.randint]
          [] s = "part6_7" -> [context |-> t, tasks |-> d.tasks]
          [] s = "part8" ->
                [topic |-> t,
                 essay_type |-> IF subtype = "None" THEN d.essay_type
                                ELSE subtype]

PromptInit ==
    /\ Fresh
    /\ file = Absent
    /\ script \in PromptScripts
    /\ step = NoStep
    /\ reply = NoReply
    /\ returned = NotCalled
    /\ peer = NoPeer
    /\ stop = FALSE
    /\ args \in [topic : Topics, subtype : Subtypes(script)]
    /\ sent = <<>>

\* one generation call, up to the request it sends; two calls are made
SendPrompt(d) ==
    /\ Len(sent) < 2
    /\ sent' = Append(sent, Prompt(script, args.topic, args.subtype, d))
    /\ UNCHANGED <<script, file, pc, exc, client, history, session, num, i,
                   passage_type, item, passage_result, qi, user_answer,
                   word_pair, user_response, total_score,
                   completed_exercises, calls, reprompts, skipped, budget,
                   step, reply, returned, peer, stop, lap, args>>

NextPrompt == \E d \in Draws(script) : SendPrompt(d)

SpecPrompt == PromptInit /\ [][NextPrompt]_vars

(***************************************************************************)
(* Properties.                                                             *)
(***************************************************************************)
RECURSIVE SumField(_, _)
SumField(ss, k) ==
    IF ss = <<>> THEN 0 ELSE Head(ss)[k] + SumField(Tail(ss), k)

\* the history file holds a JSON document, and that document
HasSaved == file.exists /\ file.decodable /\ file.text.json
Saved == file.text.val

\* the stored session a step has just appended
Stored == history'[ListKey(script)][Len(history'[ListKey(script)])]

\* a step that ends a running session and shows the menu again
SessionEnds == InSession(pc) /\ pc' = "menu"

NotJsonReplies == {Returns(text) : text \in NotJsonTexts}

\* C1: in part5, part6 and part7, in every saved history document,
\* total_correct is the sum of the stored sessions' 'correct' and
\* total_questions is the sum of the stored sessions' 'total'.
C1_CountersAreSessionSums ==
    (script \in Reading /\ HasSaved) =>
        /\ Saved.total_correct = SumField(Saved[ListKey(script)], "correct")
        /\ Saved.total_questions = SumField(Saved[ListKey(script)], "total")

\* C2: whenever the history file is absent or its content cannot be decoded
\* as JSON, the launch raises nothing and the loaded history is exactly the
\* script's default document.
C2_DefaultOnAbsentOrUndecodable ==
    [][(pc = "off" /\ (~file.exists \/ ~file.decodable \/ ~file.text.json))
         => /\ exc' = "none"
            /\ pc' = "menu" =>
                 history' =
                    CASE script \in {"part5", "part7"} ->
                            [sessions |-> <<>>, total_correct |-> 0,
                             total_questions |-> 0]
                      [] script = "part6" ->
                            [passages |-> <<>>, total_correct |-> 0,
                             total_questions |-> 0]
                      [] script = "part1_5" ->
                            [sessions |-> <<>>, total_exercises |-> 0]
                      [] script = "part6_7" ->
                            [sessions |-> <<>>, total_responses |-> 0]
                      [] script = "part8" ->
                            [sessions |-> <<>>, total_essays |-> 0]]_vars

\* C3: when the remote call returns a text that is not JSON, the generation
\* step returns the placeholder mapping, never None, every correct answer
\* of which is 'A'; an evaluation step returns the mapping whose scores are
\* all 3.
C3_PlaceholderOnNotJson ==
    (returned # NotCalled /\ reply \in NotJsonReplies) =>
        /\ returned # None
        /\ returned.t = "dict"
        /\ returned.lacks = "none"
        /\ step.fn = "generate_question" => returned.correct_answer = "A"
        /\ step.fn = "generate_passage" =>
              /\ returned.questions # <<>>
              /\ \A j \in 1..Len(returned.questions) :
                    returned.questions[j] = "A"
        /\ step.fn \in EvaluationSteps =>
              /\ returned.grammar_score = 3
              /\ returned.overall_score = 3

\* C3, reached: part7's generate_passage has returned the five-question
\* placeholder of a 'Double passage' for a reply that is not JSON.
C3_PlaceholderReturned ==
    /\ script = "part7"
    /\ returned # NotCalled
    /\ reply \in NotJsonReplies
    /\ step.fn = "generate_passage"
    /\ step.passage_type = "Double passage"
    /\ returned.t = "dict"
    /\ Len(returned.questions) = 5

\* a step of a session loop all of whose remote calls return a text that
\* is not JSON
NotJsonStep ==
    \/ \E r \in NotJsonReplies, cpt \in CurrentTypes, rnd \in RandomCounts :
          GenerateItem(r, cpt, rnd)
    \/ \E r1 \in NotJsonReplies, image_path \in BOOLEAN,
          r2 \in NotJsonReplies : GenerateExercise(r1, image_path, r2)
    \/ \E user_sentence \in SentenceInputs, r \in NotJsonReplies :
          Sentence(user_sentence, r)
    \/ \E r \in NotJsonReplies : GeneratePrompt(r)
    \/ \E line \in Lines, time_up \in BOOLEAN, r \in NotJsonReplies :
          TypeLine(line, time_up, r)

\* C4: in every script and for every item kind, a reply that is not JSON
\* never ends the session loop with an unhandled exception.
C4_NotJsonNeverStopsTheLoop ==
    [][NotJsonStep => (exc' = "none" /\ pc' # "off")]_vars

\* C5: no failure ends the process with an unhandled exception.
C5_NoUnhandledException == exc = "none"

\* C6: at the answer prompt of part5, part6 and part7, an input whose
\* upper-cased form is none of A, B, C, D, Q shows the same prompt again
\* and changes neither the session (its 'correct', its recorded items),
\* nor the records of the current passage, nor the item index, nor the
\* history document or its file, and makes no remote call.
C6_UnacceptedInputChangesNothing ==
    [][\A inp \in AnswerInputs :
          (upper(inp) \notin {"A", "B", "C", "D", "Q"} /\ Answer(inp))
            => /\ pc' = "answer"
               /\ UNCHANGED <<session, passage_result, item, i, qi, num,
                              history, file, calls, skipped>>]_vars

\* C6, reached: two unaccepted inputs in a row at one answer prompt.
C6_TwoUnacceptedInARow == pc = "answer" /\ reprompts >= 2

\* C7: in part5, a session of N requested items that stores N answers, all
\* of them correct, stores correct = N and total = N, and raises
\* total_correct and total_questions by N each.
C7_AllCorrectSession ==
    [][(script = "part5" /\ SessionEnds
        /\ Len(history'.sessions) = Len(history.sessions) + 1
        /\ Len(Stored.questions) = num
        /\ \A j \in 1..Len(Stored.questions) : Stored.questions[j].is_correct)
         => /\ Stored.correct = num
            /\ Stored.total = num
            /\ history'.total_correct = history.total_correct + num
            /\ history'.total_questions = history.total_questions + num]_vars

\* C7, reached: part5 has stored a session of two items, both answered
\* correctly.
C7_TwoCorrectStored ==
    /\ script = "part5"
    /\ pc = "menu"
    /\ \E k \in 1..Len(history.sessions) :
          /\ history.sessions[k].total = 2
          /\ history.sessions[k].correct = 2
          /\ Len(history.sessions[k].questions) = 2
          /\ \A j \in 1..2 : history.sessions[k].questions[j].is_correct

\* C8: in part5, the quit token typed at the answer prompt of item k (loop
\* index i = k - 1) ends the session at once: the session appended and
\* saved is the one held before the token, whose items are the answers
\* given before item k (k - 1 of them less the skipped iterations), whose
\* 'correct' counts the correct ones, and the k generation calls made so
\* far are the only ones; with N = 2 and k = 2 one item is recorded.
C8_QuitKeepsEarlierAnswers ==
    [][(script = "part5" /\ Answer("q"))
         => /\ pc' = "menu"
            /\ history'.sessions = Append(history.sessions, session)
            /\ file' = FileOf(JsonText(history'))
            /\ Len(session.questions) = i - skipped
            /\ \A j \in 1..Len(session.questions) :
                  session.questions[j].user_answer \in {"A", "B", "C", "D"}
            /\ session.correct =
                  Cardinality({j \in 1..Len(session.questions) :
                                  session.questions[j].is_correct})
            /\ calls = i + 1
            /\ (num = 2 /\ i = 1 /\ skipped = 0)
                  => Len(Stored.questions) = 1]_vars

\* C8, reached: part5 has stored a session of two requested items that
\* holds one answer.
C8_OneOfTwoStored ==
    /\ script = "part5"
    /\ pc = "menu"
    /\ \E k \in 1..Len(history.sessions) :
          /\ history.sessions[k].total = 2
          /\ Len(history.sessions[k].questions) = 1

\* a step of a session loop whose item generation call raises: the
\* question or passage, the scene, the word pair after a good scene, the
\* email scenario or essay prompt
RaisingStep ==
    \/ \E cpt \in CurrentTypes, rnd \in RandomCounts :
          GenerateItem(Raises, cpt, rnd)
    \/ \E image_path \in BOOLEAN, r2 \in WordPairReplies :
          GenerateExercise(Raises, image_path, r2)
    \/ \E image_path \in BOOLEAN :
          GenerateExercise(Returns(JsonText(Mapping("none"))), image_path,
                           Raises)
    \/ GeneratePrompt(Raises)

\* C9: when the remote call of a generation step raises, no exception
\* leaves the step, nothing is recorded for the iteration (the session,
\* its 'correct' and its recorded items are as before, also when the
\* session ends there and is stored), and the loop goes on: to its next
\* iteration, or past its last one to the end of the session.
C9_RaisedCallSkipsTheItem ==
    [][RaisingStep
         => /\ exc' = "none"
            /\ pc' \in {"generate", "menu"}
            /\ pc' = "generate" =>
                  /\ UNCHANGED <<session, history, file, total_score,
                                 completed_exercises>>
                  /\ script # "part6_7" => i' = i + 1
            /\ pc' = "menu" =>
                  IF script = "part8" THEN UNCHANGED <<history, file>>
                  ELSE /\ Len(history'[ListKey(script)]) =
                             Len(history[ListKey(script)]) + 1
                       /\ script \in Reading => Stored = session
                       /\ script = "part1_5" =>
                             Stored.exercises = session.exercises]_vars

\* C9, reached: part5 is at its second iteration with nothing recorded,
\* the first having been skipped.
C9_SkippedIteration ==
    /\ script = "part5"
    /\ pc = "generate"
    /\ i = 1
    /\ skipped = 1
    /\ session.questions = <<>>
    /\ session.correct = 0

\* C10: every session started with a working client ends with the session
\* appended to the history document once and the document saved.
C10_EverySessionIsStored ==
    [][SessionEnds
         => /\ Len(history'[ListKey(script)]) =
                  Len(history[ListKey(script)]) + 1
            /\ file' = FileOf(JsonText(history'))]_vars

\* C11: with two processes of one script, a save replaces the file by the
\* writer's own document: the sessions the writer held in memory followed
\* by the session that ended, under the writer's own counters, whatever
\* the other process has written to the file since the writer loaded it.
C11_SaveOverwritesWithWritersDocument ==
    [][file' # file =>
         /\ file' = save_history(history')
         /\ Len(history'[ListKey(script)]) = Len(history[ListKey(script)]) + 1
         /\ SubSeq(history'[ListKey(script)], 1, Len(history[ListKey(script)]))
              = history[ListKey(script)]
         /\ history'.total_correct = history.total_correct + Stored.correct
       ]_vars

\* both processes loaded, then both saved a session: the file is the second
\* writer's document, and the first writer's session (the only one with a
\* correct answer) is neither in its list nor in its counters
C11_FirstWritersSessionLost ==
    /\ pc = "menu"
    /\ peer.pc = "menu"
    /\ Len(peer.history[ListKey(script)]) = 1
    /\ Len(history[ListKey(script)]) = 1
    /\ peer.history.total_correct = 1
    /\ history.total_correct = 0
    /\ history.total_questions = 1
    /\ HasSaved
    /\ Saved = history
    /\ Saved.total_correct = 0
    /\ Saved.total_questions = 1
    /\ \A k \in 1..Len(Saved[ListKey(script)]) :
          Saved[ListKey(script)][k] # peer.history[ListKey(script)][1]

\* C12: a save leaves in the file the complete previous document or the
\* complete new one, also when the process stops during the save: the file
\* afterwards is what it was, or a complete JSON document.
C12_SaveIsAtomic ==
    [][InSession(pc) =>
         \/ file' = file
         \/ file'.exists /\ file'.decodable /\ file'.text.json
       ]_vars

\* C13: within one run of the process the stored session sequence changes
\* only by appending: over every step between launch and exit, the sessions
\* held in memory before the step are still there after it, unchanged and
\* at the same positions.
C13_SessionsOnlyAppended ==
    [][(pc # "off" /\ pc' # "off") =>
         /\ Len(history'[ListKey(script)]) >= Len(history[ListKey(script)])
         /\ SubSeq(history'[ListKey(script)], 1, Len(history[ListKey(script)]))
              = history[ListKey(script)]
       ]_vars

\* C14: a failed generation or evaluation step is never retried: when a
\* step leaves its iteration with `continue` and the session goes on to a
\* generation call, that call is for the next of the requested items.
C14_FailedStepIsNotRetried ==
    [][(InSession(pc) /\ pc' = "generate" /\ skipped' > skipped) =>
         (i' = i + 1 /\ i' < num)
       ]_vars

\* C15: every session terminates: a running session eventually is over,
\* whatever the remote calls return or raise.
C15_EverySessionTerminates == InSession(pc) ~> ~InSession(pc)

\* the arguments of the generation calls are all specified
Specified ==
    /\ args.topic # "None"
    /\ script \in {"part7", "part8"} => args.subtype # "None"

\* C16: prompt building is deterministic given its inputs: with the topic
\* (and the subtype, where the script accepts one) specified, two
\* generation calls with the same arguments send the same prompt.
C16_SameArgumentsSamePrompt ==
    Specified => \A j, k \in 1..Len(sent) : sent[j] = sent[k]

\* the scripts whose session loop is counted and has a quit token
Counted == {"part5", "part6", "part7", "part1_5"}

\* the quit token, in either case, read at the answer or sentence prompt
ReadsQuit ==
    \/ Answer("q")
    \/ Answer("Q")
    \/ \E r \in EvaluationReplies : Sentence("q", r) \/ Sentence("Q", r)

\* C17: in part5, part6, part7 and part1_5 a session ends with items still
\* to come only by a step that reads the quit token 'q' or 'Q' at the
\* answer or sentence prompt; whatever is typed at the "Press Enter" pause,
\* 'q' included, the session goes on with the next item; and the step that
\* reads the quit token ends the session, so that no remote call follows.
C17_LoopLeftEarlyOnlyOnQuit ==
    [][(script \in Counted) =>
         /\ (SessionEnds /\ i + 1 < num) => ReadsQuit
         /\ (pc = "pause") =>
               (/\ pc' = "generate"
                /\ i' = i + 1
                /\ calls' = calls
                /\ session' = session
                /\ history' = history
                /\ file' = file)
         /\ ReadsQuit =>
               (/\ pc' = "menu"
                /\ Len(history'[ListKey(script)])
                     = Len(history[ListKey(script)]) + 1)
       ]_vars

\* C17, reached: part1_5 has stored a session of three requested exercises
\* that was ended after its first one
C17_EndedAfterFirstOfThree ==
    /\ script = "part1_5"
    /\ pc = "menu"
    /\ budget = 0
    /\ Len(history.sessions) = 1
    /\ Len(history.sessions[1].exercises) = 1
    /\ history.total_exercises = 1
    /\ HasSaved
    /\ Saved = history

\* what the prompt at position p announces as its accepted entries: the
\* range it prints, and the empty line where it names a default
Listed(s, p, e) ==
    CASE p = "menu" -> e \in {"1", "2", "3"}
      [] p = "count" ->
            \/ isdigit(e) /\ 1 <= int(e) /\ int(e) <= CountLimit(s)
            \/ e = "" /\ s # "part5"
      [] p = "type" -> e \in {"", "1", "2", "3"}
      [] p = "topic" ->
            \/ isdigit(e) /\ 1 <= int(e) /\ int(e) <= TopicCount(s) + 1
            \/ e = "" /\ s # "part5"

\* the line e typed at the prompt the dialogue is at
Enter(e) == Choose(e) \/ Count(e) \/ Type(e) \/ Topic(e)

\* C18: at every prompt of main that takes a restricted set of values, an
\* entry outside the set is not acted upon: the same prompt is shown again,
\* nothing is recorded and no session starts.
C18_UnacceptedEntryPromptsAgain ==
    [][\A e \in Entries :
          (Enter(e) /\ ~Listed(script, pc, e)) =>
              /\ pc' = pc
              /\ num' = num
              /\ passage_type' = passage_type
              /\ session' = session
       ]_vars

\* C19: in the collection of the response of part6_7 and of the essay of
\* part8 the wall clock changes nothing but messages: a step that takes a
\* typed line with the time limit passed is the very step that takes the
\* same line with the limit not passed (same text kept, collection ended or
\* not alike).
C19_ClockIsCosmetic ==
    [][\A line \in Lines, r \in EvaluationReplies :
          (Len(user_response) < MaxLines /\ TypeLine(line, TRUE, r))
              => TypeLine(line, FALSE, r)
       ]_vars

\* C20: in part6 and part7, the quit token typed at question j > 1 of a
\* passage keeps the j - 1 answers given to that passage: the stored
\* session's passages end with the passage's result holding them, and
\* total_questions grows by the answers of the session, these included.
C20_QuitKeepsAnswersOfThePassage ==
    [][(script \in Passages /\ qi > 1 /\ (Answer("q") \/ Answer("Q"))) =>
         /\ Len(Stored.passages) = Len(session.passages) + 1
         /\ Stored.passages[Len(Stored.passages)] = passage_result
         /\ Len(passage_result.questions) = qi - 1
         /\ history'.total_questions =
               history.total_questions + SumLen(Stored.passages)
         /\ history'.total_correct = history.total_correct + session.correct
       ]_vars

RECURSIVE Flat(_)
\* the question entries of a sequence of passage results, in order
Flat(ps) == IF ps = <<>> THEN <<>> ELSE Head(ps).questions \o Flat(Tail(ps))

\* the question result entries a stored session of a reading script holds
Recorded(s, sess) == IF s = "part5" THEN sess.questions ELSE Flat(sess.passages)

CorrectIn(es) == Cardinality({j \in 1..Len(es) : es[j].is_correct})

\* C21: in part5, part6 and part7 the history held by the process has
\* total_correct <= total_questions, and every stored session's 'correct'
\* is the number of its recorded entries whose is_correct is true.
C21_CorrectWithinQuestions ==
    (script \in Reading /\ pc # "off") =>
        /\ history.total_correct <= history.total_questions
        /\ \A k \in 1..Len(history[ListKey(script)]) :
              history[ListKey(script)][k].correct
                = CorrectIn(Recorded(script, history[ListKey(script)][k]))

\* the entries of the passage being answered, not yet in the session
Pending(pr) == IF pr = None THEN <<>> ELSE pr.questions

\* the session after a step that raised nothing: the running one, or the
\* one just stored
SessionAfter == IF pc' = "menu" THEN Stored ELSE session'

\* the key of the question at the answer prompt
KeyAtPrompt ==
    IF script = "part5" THEN item.correct_answer ELSE item.questions[qi]

\* C22: in part5, part6 and part7, a step that reads an answer letter A-D
\* (in either case) and raises nothing records exactly one more entry, whose
\* is_correct is true exactly when the upper-cased input equals the item's
\* correct_answer, and session['correct'] rises by 1 when it is true and
\* stays otherwise.
C22_AnswerScoredAgainstKey ==
    [][\A inp \in AnswerInputs :
          (/\ script \in Reading
           /\ upper(inp) \in KeyLetters
           /\ Answer(inp)
           /\ pc' # "off") =>
              LET before == Recorded(script, session) \o Pending(passage_result)
                  after == Recorded(script, SessionAfter)
                             \o Pending(passage_result')
                  hit == upper(inp) = KeyAtPrompt
              IN  /\ Len(after) = Len(before) + 1
                  /\ SubSeq(after, 1, Len(before)) = before
                  /\ after[Len(after)].user_answer = upper(inp)
                  /\ after[Len(after)].correct_answer = KeyAtPrompt
                  /\ after[Len(after)].is_correct = hit
                  /\ SessionAfter.correct
                       = session.correct + (IF hit THEN 1 ELSE 0)
       ]_vars

\* C22, reached: part6 shows the placeholder passage (every key 'A'), the
\* first blank was answered 'A' and is recorded as correct
C22_PlaceholderAnsweredA ==
    /\ script = "part6"
    /\ pc = "answer"
    /\ item = Passage6(Rep(Part6PlaceholderQuestions, PlaceholderKey), "none")
    /\ qi = 2
    /\ passage_result.questions = <<[user_answer |-> "A",
                                     correct_answer |-> PlaceholderKey,
                                     is_correct |-> TRUE]>>
    /\ session.correct = 1

RECURSIVE RecordedCount(_, _)
\* the number of question result entries recorded in stored sessions ss
RecordedCount(s, ss) ==
    IF ss = <<>> THEN 0
    ELSE Len(Recorded(s, Head(ss))) + RecordedCount(s, Tail(ss))

\* C23: in part5, part6 and part7, in every saved history document,
\* total_questions is the number of question result entries recorded across
\* all stored sessions (in part6 and part7 over every stored passage).
C23_TotalQuestionsCountsEntries ==
    (script \in Reading /\ HasSaved) =>
        Saved.total_questions = RecordedCount(script, Saved[ListKey(script)])

\* C23, reached: a saved document of part7 with two sessions, one of which
\* recorded fewer entries than answers were given in it
C23_TwoSessionsSaved ==
    /\ script = "part7"
    /\ HasSaved
    /\ Len(Saved.sessions) = 2
    /\ Saved.total_questions >= 2
    /\ \E k \in 1..2 : Saved.sessions[k].passages = <<>>

RECURSIVE ItemCount(_, _)
\* the number of items recorded in stored sessions ss of a writing script
ItemCount(s, ss) ==
    IF ss = <<>> THEN 0
    ELSE Len(Head(ss)[ItemsKey(s)]) + ItemCount(s, Tail(ss))

\* C24: in the writing scripts, in every saved history document the
\* cumulative counter (total_exercises, total_responses, total_essays) is the
\* number of items recorded across all stored sessions; and while a part1_5
\* session runs, completed_exercises equals len(session['exercises']).
C24_CounterCountsItems ==
    /\ (script \notin Reading /\ HasSaved) =>
           Saved[CounterKey(script)] = ItemCount(script, Saved.sessions)
    /\ (script = "part1_5" /\ InSession(pc)) =>
           completed_exercises = Len(session.exercises)

\* C24, reached: a saved part1_5 document of two sessions, one with a
\* recorded exercise and one with none
C24_EmptyAndScoredSessionsSaved ==
    /\ script = "part1_5"
    /\ HasSaved
    /\ Len(Saved.sessions) = 2
    /\ Saved.total_exercises >= 1
    /\ \E k \in 1..2 : Saved.sessions[k].exercises = <<>>

\* the items a session of a script with a counted loop holds
ItemsOf(s, sess) ==
    CASE s = "part5" -> sess.questions
      [] s \in Passages -> sess.passages
      [] s = "part1_5" -> sess.exercises

\* C25: in part5, part6, part7 and part1_5 a session requested with N items
\* makes at most N item-generation calls and stores at most N items: a
\* generation call is made only at an index i < N, every return to the
\* generation call within the session is at the next index, the remote
\* calls of a reading session (all of them generation calls) never exceed
\* N, and the session that is stored holds at most N items.
C25_AtMostRequestedItems ==
    [][(script \in Counted) =>
         /\ (pc = "generate") => i < num
         /\ (InSession(pc) /\ pc' = "generate") => i' = i + 1
         /\ (script \in Reading /\ InSession(pc')) => calls' <= num'
         /\ InSession(pc') => Len(ItemsOf(script, session')) <= num'
         /\ SessionEnds => Len(ItemsOf(script, Stored)) <= num
      ]_vars

\* C25, reached: a part5 session of two questions whose first generation
\* call gave nothing and whose second call gave a question
C25_SecondCallAfterFailure ==
    /\ script = "part5"
    /\ pc = "answer"
    /\ num = 2
    /\ i = 1
    /\ skipped = 1
    /\ calls = 2

\* the scripts whose statistics view lists the recent sessions
ListsSessions == {"part7", "part1_5", "part6_7", "part8"}

\* sq[:n]
FirstOf(sq, n) == IF Len(sq) > n THEN SubSeq(sq, 1, n) ELSE sq

\* C26: every statistics view of part7, part1_5, part6_7 and part8 lists at
\* most five sessions, the latest ones, most recent first, whatever came
\* before: the list a view would print starts with the session stored last
\* followed by what was listed before it was stored, and a statistics view
\* leaves the list the next view prints as it is.
C26_RecentSessionsMostRecentFirst ==
    [][(script \in ListsSessions /\ pc # "off" /\ pc' = "menu") =>
         /\ Len(recent_sessions(script, history')) <= RecentCount
         /\ (Len(history'.sessions) = Len(history.sessions) + 1) =>
               recent_sessions(script, history')
                 = FirstOf(<<Stored>> \o recent_sessions(script, history),
                           RecentCount)
         /\ MenuStats =>
               recent_sessions(script, history')
                 = recent_sessions(script, history)
      ]_vars

\* C27: for every content of the history file, the in-memory history of a
\* launched process is a mapping with the key set of its script's history
\* document.
C27_LoadedHistoryHasKeySet ==
    (pc # "off") => DOMAIN history = DOMAIN DefaultDocument(script)

\* C28: in part6_7 and part8 the collection of the response, when the time
\* limit has not passed, ends only on an empty line entered after at least
\* one non-empty line, so the text sent for evaluation holds a non-blank
\* line; Enter pressed twice with nothing typed does not submit.
C28_SubmittedTextHasNonBlankLine ==
    [][\A line \in Lines, r \in EvaluationReplies :
          (TypeLine(line, FALSE, r) /\ pc' # "collect") =>
              /\ line = ""
              /\ \E j \in 1..Len(user_response) : user_response[j] # ""
      ]_vars

\* C29: part6_7 and part8 never store an empty session: in every saved
\* history document, every session of part8 holds exactly one scored essay,
\* so that total_essays is the number of stored sessions, and every session
\* of part6_7 holds at least one scored response.
C29_NoEmptySessionStored ==
    (script \in SetupInMain /\ HasSaved) =>
        /\ \A k \in 1..Len(Saved.sessions) :
              LET items == Saved.sessions[k][ItemsKey(script)]
              IN  /\ Len(items) >= 1
                  /\ script = "part8" => Len(items) = 1
                  /\ \A j \in 1..Len(items) :
                        "overall_score" \in DOMAIN items[j]
        /\ script = "part8" => Saved.total_essays = Len(Saved.sessions)

\* C29, reached: a saved part8 document of two sessions after a run in which
\* a generation or an evaluation gave nothing
C29_TwoEssaySessionsSaved ==
    /\ script = "part8"
    /\ HasSaved
    /\ Len(Saved.sessions) = 2
    /\ Saved.total_essays = 2
    /\ budget = 0

====
